---- MODULE Spec2Model ----
(***************************************************************************)
(* The interactive flowchart renderer of src/js/intelligence.js            *)
(* (initFlowchart, renderNode, createCard, toggleDetail, toggleSection,    *)
(* setupExpandAll), modelled at the level of the DOM state the code reads  *)
(* and writes: data-expanded, data-depth, the flow-children--collapsed     *)
(* class, the connector stub's display, the badge text, the detail         *)
(* region's aria-hidden and height, and the transitionend listeners.       *)
(*                                                                         *)
(* Nodes are numbered 1..n in document order (pre-order of the tree), so   *)
(* that querySelector, which returns the first match in document order, is *)
(* the minimum of the matching nodes of a subtree.                         *)
(***************************************************************************)
EXTENDS Integers, Sequences, FiniteSets, TLC

\* Largest number of nodes of a fetched tree.
MaxNodes == 3

\* Largest number of nodes of a tree when the transitionend callbacks are
\* interleaved with the handlers (SpecAnim).
MaxAnimNodes == 2

\* Largest number of nodes of a fetched tree whose nodes may be null or lack
\* type or label (SpecMount).
MaxMountNodes == 2

\* Largest number of nodes of a fetched tree whose nodes carry a childMode
\* (SpecMode).
MaxModeNodes == 2

\* node.type: "section" and one representative of the other kinds
\* (decision, action, warning, info differ only in icon and CSS class).
NodeTypes == {"section", "action"}

\* what a malformed payload can hold in place of a typed node: an object
\* without a type property ("missing"), or null
MountKinds == NodeTypes \cup {"missing", "null"}

\* node.childMode
ChildModes == {"absent", "sequential", "choice"}

\* how the fetch of initFlowchart ends: resolved with an ok status and a JSON
\* body, rejected, resolved with a status that is not ok, or resolved with a
\* body that resp.json() rejects
Responses == {"ok", "rejected", "status", "badJson"}

VARIABLES
  resp,         \* how the fetch ends
  data,         \* the fetched payload: the NodeSpec tree under data.root
  hasBtn,       \* whether the page has an element with id expand-all-btn
  container,    \* what the container holds: "loading", "tree" or "error"
  els,          \* the .flow-node elements, per node, once rendered
  allExpanded,  \* the closure variable of setupExpandAll
  btnText,      \* textContent of the expand-all button
  rafPending,   \* whether callbacks passed to requestAnimationFrame wait for
                \* the next frame
  lastOp,       \* history: the handler that ran last, and on which node
  before,       \* history: the facets, when that handler started, of the node
                \* it ran on (of every node, for the expand-all button)
  api,          \* js/api.js: one call of request() and how far it has got
  i18n,         \* js/i18n.js: the module's state and what it reads and writes
  feed,         \* js/intelligence.js: the intelligence feed of one page load
  status        \* the status page: server, requests in flight, what is shown

flowVars == <<resp, data, hasBtn, container, els, allExpanded, btnText,
              rafPending, lastOp, before>>

vars == <<resp, data, hasBtn, container, els, allExpanded, btnText, rafPending,
          lastOp, before, api, i18n, feed, status>>

\* the value of the variable of a page that the specification at hand does
\* not load
Unused == [pc |-> "unused"]

Op(kind, n) == [op |-> kind, node |-> n]

\* The two facets of a node, read off its element: the children are expanded
\* unless its children container carries flow-children--collapsed, and the
\* detail flag is data-expanded.
Facets(el) == [children |-> el.childrenEl # "collapsed", detail |-> el.expanded]

\* the history variables after handler op ran from the current state; S is
\* the set of nodes whose facets are remembered
Record(op, S) ==
  /\ lastOp' = op
  /\ before' = [i \in S |-> Facets(els[i])]

\* the history variables after callback op ran from the current state: the
\* facets of every node and the expand-all flag are remembered
RecordAll(op) ==
  /\ lastOp' = op
  /\ before' = [flags |-> [i \in DOMAIN els |-> Facets(els[i])], all |-> allExpanded]

----------------------------------------------------------------------------
\* The NodeSpec tree.

RECURSIVE AncOrSelf(_, _)
AncOrSelf(par, i) == IF i = 0 THEN {} ELSE {i} \cup AncOrSelf(par, par[i])

\* parent vectors of the trees with n nodes numbered in pre-order: a node's
\* parent is the previous node or one of that node's ancestors
Parents(n) ==
  {p \in [1..n -> 0..(n - 1)] :
     /\ p[1] = 0
     /\ \A i \in 2..n : p[i] \in AncOrSelf(p, i - 1)}

\* null has no properties, and childMode is read only of a node with children
NodeSpecOK(t) ==
  \A i \in 1..t.n :
    /\ t.type[i] = "null" =>
         /\ ~t.detail[i] /\ ~t.label[i]
         /\ \A j \in 1..t.n : t.parent[j] # i
    /\ t.mode[i] # "absent" => \E j \in 1..t.n : t.parent[j] = i

\* The trees of at most maxN nodes: per node its parent (0 for the root), its
\* type, whether it has a detail and a label, and its childMode; sub[i] is
\* the subtree under node i.
TreesOf(maxN, kinds, labels, modes) ==
  UNION {{t \in {[n |-> n, parent |-> p, type |-> ty, detail |-> de,
                  label |-> la, mode |-> mo,
                  sub |-> [i \in 1..n |-> {j \in 1..n : i \in AncOrSelf(p, j)}]] :
                  p \in Parents(n), ty \in [1..n -> kinds],
                  de \in [1..n -> BOOLEAN], la \in [1..n -> labels],
                  mo \in [1..n -> modes]} : NodeSpecOK(t)} :
         n \in 1..maxN}

\* the well-formed trees of at most MaxNodes nodes, childMode left out
Trees == TreesOf(MaxNodes, NodeTypes, {TRUE}, {"absent"})

\* a payload without a root
NoRoot == [n |-> 0, parent |-> <<>>, type |-> <<>>, detail |-> <<>>,
           label |-> <<>>, mode |-> <<>>, sub |-> <<>>]

NodeIds == 1..data.n

\* node.children, in order
Children(i) == {j \in NodeIds : data.parent[j] = i}

\* the nodes whose element is nodeEl or a descendant of nodeEl
Subtree(i) == data.sub[i]

Min(S) == CHOOSE x \in S : \A y \in S : x <= y

\* variant: String(i + 1) without the padding
Pad2_noPad(k) == <<k>>

\* String(i + 1).padStart(2, '0'), as the pair of its decimal digits
Pad2(k) == <<k \div 10, k % 10>>

----------------------------------------------------------------------------
\* Rendering.

\* createCard: the step number, the badge, the detail region and the values
\* the click handlers close over (isSection, hasDetail)
createCard(node, depth, index, treeNumber) ==
  LET isSection == data.type[node] = "section" /\ Children(node) # {}
      hasDetail == data.detail[node]
      len == Len(treeNumber)
  IN [ icon       |-> IF data.type[node] \in NodeTypes THEN data.type[node] ELSE "info",
       label      |-> IF data.label[node] THEN "text" ELSE "",
       step       |-> IF depth > 0 /\ treeNumber # <<>>
                      THEN SubSeq(treeNumber, IF len >= 2 THEN len - 1 ELSE 1, len)
                      ELSE <<>>,
       badgeRole  |-> IF isSection THEN "section"
                      ELSE IF hasDetail THEN "detail" ELSE "absent",
       badgeText  |-> IF isSection THEN (IF depth >= 1 THEN "show" ELSE "hide")
                      ELSE IF hasDetail THEN "show" ELSE "absent",
       ariaHidden |-> IF hasDetail THEN "true" ELSE "absent",
       height     |-> IF hasDetail THEN "css" ELSE "absent",
       listener   |-> FALSE,
       transition |-> FALSE,
       isSection  |-> isSection,
       hasDetail  |-> hasDetail ]

\* variant: only sections deeper than depth 1 start collapsed
StartCollapsed_deeper(node, depth) == data.type[node] = "section" /\ depth > 1

\* Sections deeper than depth 1 start collapsed (renderNode, the final if)
StartCollapsed(node, depth) == data.type[node] = "section" /\ depth >= 1

\* node.children[k - 1]
ChildAt(node, k) ==
  CHOOSE c \in Children(node) : Cardinality({s \in Children(node) : s < c}) = k - 1

\* variant: forEach counts the children from 1
SiblingIndex_oneBased(node, c) == Cardinality({s \in Children(node) : s <= c})

\* the i of node.children.forEach((child, i) => ...) at child c
SiblingIndex(node, c) == Cardinality({s \in Children(node) : s < c})

\* renderNode on a tree whose childMode properties are childMode[node]: the
\* element of node and, recursively, of its children, as a set of
\* <<node, element>> pairs.  childEls lists the .flow-node elements appended
\* to the children container, in the order of the appendChild calls; mode is
\* the container's flow-children--<mode> class and dividers the number of
\* choice dividers appended to it.
RECURSIVE renderNodeWith(_, _, _, _, _)
renderNodeWith(childMode, node, depth, index, treeNumber) ==
  LET hasChildren == Children(node) # {}
      mode == IF childMode[node] = "absent" THEN "sequential" ELSE childMode[node]
      collapsed == hasChildren /\ StartCollapsed(node, depth)
      el == [ nodeId      |-> node,
              type        |-> data.type[node],
              depth       |-> depth,
              index       |-> index,
              treeNumber  |-> treeNumber,
              expanded    |-> FALSE,
              mode        |-> IF hasChildren THEN mode ELSE "absent",
              dividers    |-> Cardinality({c \in Children(node) :
                                 mode = "choice" /\ SiblingIndex(node, c) > 0}),
              childEls    |-> [k \in 1..Cardinality(Children(node)) |->
                                 ChildAt(node, k)],
              childrenEl  |-> IF ~hasChildren THEN "absent"
                              ELSE IF collapsed THEN "collapsed" ELSE "open",
              stubDisplay |-> IF ~hasChildren THEN "absent"
                              ELSE IF collapsed THEN "none" ELSE "" ]
              @@ createCard(node, depth, index, treeNumber)
  IN {<<node, el>>} \cup
     UNION {LET i == SiblingIndex(node, c)
            IN renderNodeWith(childMode, c, depth + 1, i, treeNumber \o <<Pad2(i + 1)>>) :
            c \in Children(node)}

\* renderNode on the fetched tree
renderNode(node, depth, index, treeNumber) ==
  renderNodeWith(data.mode, node, depth, index, treeNumber)

\* renderNode throws a TypeError at node.type when node is undefined or null
renderThrows == data.n = 0 \/ \E i \in NodeIds : data.type[i] = "null"

\* the elements of renderNode(data.root, 0, 0, ''), per node
RenderedWith(childMode) ==
  LET pairs == renderNodeWith(childMode, 1, 0, 0, <<>>)
  IN [i \in NodeIds |-> (CHOOSE pr \in pairs : pr[1] = i)[2]]

Rendered == RenderedWith(data.mode)

----------------------------------------------------------------------------
\* Expand / collapse.

\* nodeEl.querySelector('.flow-card__detail'): the first detail region in
\* document order inside nodeEl, 0 for null
queryDetail(e, n) ==
  LET S == {m \in Subtree(n) : e[m].ariaHidden # "absent"}
  IN IF S = {} THEN 0 ELSE Min(S)

\* nodeEl.querySelector('.flow-card__badge'): the first badge inside nodeEl
queryBadge(e, n) ==
  LET S == {m \in Subtree(n) : e[m].badgeRole # "absent"}
  IN IF S = {} THEN 0 ELSE Min(S)

\* variant: a detail that is expanded stays expanded
toggleDetail_noCollapse(e, n) ==
  LET detail == queryDetail(e, n)
      badge == queryBadge(e, n)
      e1 == [e EXCEPT ![detail].height = "px",
                      ![detail].transition = TRUE,
                      ![detail].listener = TRUE,
                      ![detail].ariaHidden = "false"]
      e2 == [e1 EXCEPT ![n].expanded = TRUE]
  IN IF detail = 0 \/ e[n].expanded THEN e
     ELSE IF badge # 0 /\ e[badge].badgeRole = "detail"
          THEN [e2 EXCEPT ![badge].badgeText = "hide"]
          ELSE e2

toggleDetail(e, n) ==
  LET detail == queryDetail(e, n)
      badge == queryBadge(e, n)
      isExpanded == e[n].expanded
      e1 == IF isExpanded
            THEN [e EXCEPT ![detail].height = "0",
                           ![detail].transition = TRUE,
                           ![detail].ariaHidden = "true"]
            ELSE [e EXCEPT ![detail].height = "px",
                           ![detail].transition = TRUE,
                           ![detail].listener = TRUE,
                           ![detail].ariaHidden = "false"]
      e2 == [e1 EXCEPT ![n].expanded = ~isExpanded]
  IN IF detail = 0 THEN e
     ELSE IF badge # 0 /\ e[badge].badgeRole = "detail"
          THEN [e2 EXCEPT ![badge].badgeText = IF isExpanded THEN "show" ELSE "hide"]
          ELSE e2

\* variant: expanding the children leaves the detail as it is
toggleSection_noReveal(e, n) ==
  LET badge == queryBadge(e, n)
      isCollapsed == e[n].childrenEl = "collapsed"
      e1 == [e EXCEPT ![n].childrenEl = IF isCollapsed THEN "open" ELSE "collapsed",
                      ![n].stubDisplay = IF isCollapsed THEN "" ELSE "none"]
      e2 == IF badge # 0
            THEN [e1 EXCEPT ![badge].badgeText = IF isCollapsed THEN "hide" ELSE "show"]
            ELSE e1
  IN IF e[n].childrenEl = "absent" THEN e
     ELSE IF isCollapsed
          THEN e2
          ELSE (IF e2[n].expanded THEN toggleDetail(e2, n) ELSE e2)

\* variant: collapsing the children leaves the detail as it is
toggleSection_keepDetail(e, n) ==
  LET badge == queryBadge(e, n)
      isCollapsed == e[n].childrenEl = "collapsed"
      e1 == [e EXCEPT ![n].childrenEl = IF isCollapsed THEN "open" ELSE "collapsed",
                      ![n].stubDisplay = IF isCollapsed THEN "" ELSE "none"]
      e2 == IF badge # 0
            THEN [e1 EXCEPT ![badge].badgeText = IF isCollapsed THEN "hide" ELSE "show"]
            ELSE e1
  IN IF e[n].childrenEl = "absent" THEN e
     ELSE IF isCollapsed
          THEN (IF ~e2[n].expanded /\ queryDetail(e2, n) # 0
                THEN toggleDetail(e2, n) ELSE e2)
          ELSE e2

toggleSection(e, n) ==
  LET badge == queryBadge(e, n)
      isCollapsed == e[n].childrenEl = "collapsed"
      e1 == [e EXCEPT ![n].childrenEl = IF isCollapsed THEN "open" ELSE "collapsed",
                      ![n].stubDisplay = IF isCollapsed THEN "" ELSE "none"]
      e2 == IF badge # 0
            THEN [e1 EXCEPT ![badge].badgeText = IF isCollapsed THEN "hide" ELSE "show"]
            ELSE e1
  IN IF e[n].childrenEl = "absent" THEN e
     ELSE IF isCollapsed
          THEN (IF ~e2[n].expanded /\ queryDetail(e2, n) # 0
                THEN toggleDetail(e2, n) ELSE e2)
          ELSE (IF e2[n].expanded THEN toggleDetail(e2, n) ELSE e2)

\* variant: the header of a node with a detail first closes the details of
\* the node's siblings (an accordion)
headerClick_accordion(e, n) ==
  LET closed == [m \in DOMAIN e |->
                   IF m # n /\ data.parent[m] = data.parent[n] /\ e[m].hasDetail
                   THEN [e[m] EXCEPT !.expanded = FALSE, !.ariaHidden = "true",
                                     !.height = "0"]
                   ELSE e[m]]
  IN IF e[n].isSection THEN toggleSection(e, n)
     ELSE IF e[n].hasDetail THEN toggleDetail(closed, n)
     ELSE e

\* toggleDetail calls requestAnimationFrame in the branch that sets
\* data-expanded to 'true': a handler that took the tree from e to f
\* scheduled a callback iff it set the flag of some node
Scheduled(e, f) == \E n \in DOMAIN e : ~e[n].expanded /\ f[n].expanded

\* createCard, the header's click listener
headerClick(e, n) ==
  IF e[n].isSection THEN toggleSection(e, n)
  ELSE IF e[n].hasDetail THEN toggleDetail(e, n)
  ELSE e

\* createCard, the detail region's click listener (installed if hasDetail)
detailClick(e, n) ==
  IF e[n].isSection THEN toggleSection(e, n) ELSE toggleDetail(e, n)

\* variant: the first loop of the collapse path tests the flag the wrong way
RECURSIVE collapseDetails_inverted(_, _)
collapseDetails_inverted(e, i) ==
  IF i > data.n THEN e
  ELSE collapseDetails_inverted(IF ~e[i].expanded THEN toggleDetail(e, i) ELSE e, i + 1)

\* setupExpandAll, collapse path, first loop, from node i on
RECURSIVE collapseDetails(_, _)
collapseDetails(e, i) ==
  IF i > data.n THEN e
  ELSE collapseDetails(IF e[i].expanded THEN toggleDetail(e, i) ELSE e, i + 1)

\* variant: the second loop of the collapse path without the depth test
RECURSIVE collapseSections_anyDepth(_, _)
collapseSections_anyDepth(e, i) ==
  IF i > data.n THEN e
  ELSE LET b == queryBadge(e, i)
           e1 == [e EXCEPT ![i].childrenEl = "collapsed", ![i].stubDisplay = "none"]
           e2 == IF b # 0 THEN [e1 EXCEPT ![b].badgeText = "show"] ELSE e1
       IN collapseSections_anyDepth(
            IF e[i].type = "section" /\ e[i].childrenEl = "open"
            THEN e2 ELSE e, i + 1)

\* variant: the second loop of the collapse path visits every node
RECURSIVE collapseSections_anyType(_, _)
collapseSections_anyType(e, i) ==
  IF i > data.n THEN e
  ELSE LET b == queryBadge(e, i)
           e1 == [e EXCEPT ![i].childrenEl = "collapsed", ![i].stubDisplay = "none"]
           e2 == IF b # 0 THEN [e1 EXCEPT ![b].badgeText = "show"] ELSE e1
       IN collapseSections_anyType(
            IF e[i].depth >= 1 /\ e[i].childrenEl = "open"
            THEN e2 ELSE e, i + 1)

\* setupExpandAll, collapse path, second loop, from node i on
RECURSIVE collapseSections(_, _)
collapseSections(e, i) ==
  IF i > data.n THEN e
  ELSE LET b == queryBadge(e, i)
           e1 == [e EXCEPT ![i].childrenEl = "collapsed", ![i].stubDisplay = "none"]
           e2 == IF b # 0 THEN [e1 EXCEPT ![b].badgeText = "show"] ELSE e1
       IN collapseSections(
            IF e[i].type = "section" /\ e[i].depth >= 1 /\ e[i].childrenEl = "open"
            THEN e2 ELSE e, i + 1)

\* variant: the expand path reopens only the sections the collapse path closes
expandSections_deepOnly(e) ==
  [i \in DOMAIN e |->
     [e[i] EXCEPT !.childrenEl = IF @ = "collapsed" /\ e[i].depth >= 1 THEN "open" ELSE @,
                  !.stubDisplay = IF e[i].childrenEl = "collapsed" /\ e[i].depth >= 1
                                  THEN "" ELSE @,
                  !.badgeText = IF e[i].badgeRole = "section" THEN "hide" ELSE @]]

\* variant: the expand path reopens the sections and leaves their badges
expandSections_noBadge(e) ==
  [i \in DOMAIN e |->
     [e[i] EXCEPT !.childrenEl = IF @ = "collapsed" THEN "open" ELSE @,
                  !.stubDisplay = IF e[i].childrenEl = "collapsed" THEN "" ELSE @]]

\* variant: the expand path leaves the collapsed children of a choice closed
expandSections_notChoice(e) ==
  [i \in DOMAIN e |->
     [e[i] EXCEPT !.childrenEl = IF @ = "collapsed" /\ e[i].mode # "choice"
                                 THEN "open" ELSE @,
                  !.stubDisplay = IF e[i].childrenEl = "collapsed" /\ e[i].mode # "choice"
                                  THEN "" ELSE @,
                  !.badgeText = IF e[i].badgeRole = "section" THEN "hide" ELSE @]]

\* setupExpandAll, expand path: sections, then section badges
expandSections(e) ==
  [i \in DOMAIN e |->
     [e[i] EXCEPT !.childrenEl = IF @ = "collapsed" THEN "open" ELSE @,
                  !.stubDisplay = IF e[i].childrenEl = "collapsed" THEN "" ELSE @,
                  !.badgeText = IF e[i].badgeRole = "section" THEN "hide" ELSE @]]

\* setupExpandAll, expand path, last loop, from node i on
RECURSIVE expandDetails(_, _)
expandDetails(e, i) ==
  IF i > data.n THEN e
  ELSE expandDetails(IF ~e[i].expanded /\ queryDetail(e, i) # 0
                     THEN toggleDetail(e, i) ELSE e, i + 1)

\* the tree after the button's listener ran on tree e with allExpanded = all
toggleAllEls(e, all) ==
  IF all THEN collapseSections(collapseDetails(e, 1), 1)
  ELSE expandDetails(expandSections(e), 1)

----------------------------------------------------------------------------
TypeOK ==
  /\ resp \in Responses
  /\ data.n \in 0..MaxNodes
  /\ hasBtn \in BOOLEAN
  /\ container \in {"loading", "tree", "error"}
  /\ allExpanded \in BOOLEAN
  /\ rafPending \in BOOLEAN

\* The page before initFlowchart runs: the container shows the loading
\* indicator; the fetch will either deliver one of the payloads or fail.
Start(payloads) ==
  /\ \/ resp = "ok" /\ data \in payloads
     \/ resp \in Responses \ {"ok"} /\ data = NoRoot
  /\ hasBtn \in BOOLEAN
  /\ container = "loading"
  /\ els = <<>>
  /\ allExpanded = FALSE
  /\ btnText = "initial"
  /\ rafPending = FALSE
  /\ lastOp = Op("none", 0)
  /\ before = <<>>

\* a page with the flowchart loads none of the other modules modelled here
OnlyFlowchart ==
  /\ api = Unused
  /\ i18n = Unused
  /\ feed = Unused
  /\ status = Unused

\* a page without the flowchart: its variables stay as they start
NoFlowchart == Start({NoRoot}) /\ resp = "ok" /\ ~hasBtn

Init == OnlyFlowchart /\ Start(Trees \cup {NoRoot})

\* variant: setupExpandAll registers the listener without testing that the
\* button exists; on a page without the button it throws inside the try block
Mount_requiresBtn ==
  /\ container = "loading"
  /\ resp = "ok"
  /\ ~renderThrows
  /\ container' = IF hasBtn THEN "tree" ELSE "error"
  /\ els' = IF hasBtn THEN Rendered ELSE <<>>
  /\ Record(Op("mount", 0), {})
  /\ UNCHANGED <<api, i18n, feed, status, resp, data, hasBtn, allExpanded, btnText, rafPending>>

\* initFlowchart, the try block run to its end: the fetch resolved ok, the
\* container was emptied, the tree built and appended, setupExpandAll run
Mount ==
  /\ container = "loading"
  /\ resp = "ok"
  /\ ~renderThrows
  /\ container' = "tree"
  /\ els' = Rendered
  /\ Record(Op("mount", 0), {})
  /\ UNCHANGED <<api, i18n, feed, status, resp, data, hasBtn, allExpanded, btnText, rafPending>>

\* variant: the catch block shows the panel for a failed fetch only; an
\* exception of renderNode leaves the container as line 267 emptied it
MountFail_fetchOnly ==
  /\ container = "loading"
  /\ resp # "ok" \/ renderThrows
  /\ container' = IF resp # "ok" THEN "error" ELSE "empty"
  /\ Record(Op("mountFail", 0), {})
  /\ UNCHANGED <<api, i18n, feed, status, resp, data, hasBtn, els, allExpanded, btnText, rafPending>>

\* initFlowchart, the catch block: the fetch rejected, the status was not
\* ok, resp.json() rejected or renderNode threw before anything was appended;
\* container.innerHTML becomes the failure panel
MountFail ==
  /\ container = "loading"
  /\ resp # "ok" \/ renderThrows
  /\ container' = "error"
  /\ Record(Op("mountFail", 0), {})
  /\ UNCHANGED <<api, i18n, feed, status, resp, data, hasBtn, els, allExpanded, btnText, rafPending>>

\* The listeners exist once the tree is rendered: the header's on every
\* card, the detail region's on the cards that have one (createCard), the
\* button's if the page has the button (setupExpandAll).  No listener is
\* ever removed or disabled.
HeaderClickable(n) == container = "tree"
DetailClickable(n) == container = "tree" /\ els[n].hasDetail
ButtonClickable == container = "tree" /\ hasBtn

\* a click on the header of node n
HeaderClick(n) ==
  /\ HeaderClickable(n)
  /\ els' = headerClick(els, n)
  /\ rafPending' = (rafPending \/ Scheduled(els, els'))
  /\ Record(Op("header", n), {n})
  /\ UNCHANGED <<api, i18n, feed, status, resp, data, hasBtn, container, allExpanded, btnText>>

\* a click on the detail region of node n
DetailClick(n) ==
  /\ DetailClickable(n)
  /\ els' = detailClick(els, n)
  /\ rafPending' = (rafPending \/ Scheduled(els, els'))
  /\ Record(Op("detail", n), {n})
  /\ UNCHANGED <<api, i18n, feed, status, resp, data, hasBtn, container, allExpanded, btnText>>

\* variant: the collapse path collapses the details and not the sections
ToggleAll_detailsOnly ==
  /\ ButtonClickable
  /\ IF allExpanded
     THEN /\ els' = collapseDetails(els, 1)
          /\ btnText' = "Expand All"
          /\ allExpanded' = FALSE
     ELSE /\ els' = expandDetails(expandSections(els), 1)
          /\ btnText' = "Collapse All"
          /\ allExpanded' = TRUE
  /\ rafPending' = (rafPending \/ Scheduled(els, els'))
  /\ Record(Op("toggleAll", 0), NodeIds)
  /\ UNCHANGED <<api, i18n, feed, status, resp, data, hasBtn, container>>

\* variant: the expand path forgets to set allExpanded
ToggleAll_noFlag ==
  /\ ButtonClickable
  /\ IF allExpanded
     THEN /\ els' = collapseSections(collapseDetails(els, 1), 1)
          /\ btnText' = "Expand All"
          /\ allExpanded' = FALSE
     ELSE /\ els' = expandDetails(expandSections(els), 1)
          /\ btnText' = "Collapse All"
          /\ allExpanded' = allExpanded
  /\ rafPending' = (rafPending \/ Scheduled(els, els'))
  /\ Record(Op("toggleAll", 0), NodeIds)
  /\ UNCHANGED <<api, i18n, feed, status, resp, data, hasBtn, container>>

\* a click on the expand-all button (setupExpandAll's listener)
ToggleAll ==
  /\ ButtonClickable
  /\ IF allExpanded
     THEN /\ els' = collapseSections(collapseDetails(els, 1), 1)
          /\ btnText' = "Expand All"
          /\ allExpanded' = FALSE
     ELSE /\ els' = expandDetails(expandSections(els), 1)
          /\ btnText' = "Collapse All"
          /\ allExpanded' = TRUE
  /\ rafPending' = (rafPending \/ Scheduled(els, els'))
  /\ Record(Op("toggleAll", 0), NodeIds)
  /\ UNCHANGED <<api, i18n, feed, status, resp, data, hasBtn, container>>

\* variant: the transitionend listener also marks the node as expanded
TransitionEnd_setsFlag(n) ==
  /\ container = "tree"
  /\ els[n].transition
  /\ els' = [els EXCEPT ![n].transition = FALSE,
                        ![n].listener = FALSE,
                        ![n].height = IF els[n].listener THEN "auto" ELSE @,
                        ![n].expanded = IF els[n].listener THEN TRUE ELSE @]
  /\ RecordAll(Op("transitionend", n))
  /\ UNCHANGED <<api, i18n, feed, status, resp, data, hasBtn, container, allExpanded, btnText, rafPending>>

\* the height transition of node n's detail region ends: the listeners
\* toggleDetail registered run and remove themselves
TransitionEnd(n) ==
  /\ container = "tree"
  /\ els[n].transition
  /\ els' = [els EXCEPT ![n].transition = FALSE,
                        ![n].listener = FALSE,
                        ![n].height = IF els[n].listener THEN "auto" ELSE @]
  /\ RecordAll(Op("transitionend", n))
  /\ UNCHANGED <<api, i18n, feed, status, resp, data, hasBtn, container, allExpanded, btnText, rafPending>>

\* the next frame: the callbacks toggleDetail passed to
\* requestAnimationFrame all run; each scrolls the page when its card ends
\* below the viewport and writes nothing to the tree
AnimationFrame ==
  /\ rafPending
  /\ rafPending' = FALSE
  /\ RecordAll(Op("raf", 0))
  /\ UNCHANGED <<api, i18n, feed, status, resp, data, hasBtn, container, els, allExpanded, btnText>>

Next ==
  \/ Mount
  \/ MountFail
  \/ \E n \in NodeIds : HeaderClick(n)
  \/ \E n \in NodeIds : DetailClick(n)
  \/ ToggleAll

\* The click handlers and the expand-all handler.  They never read the
\* height, the listeners or the running transition of a detail region, so
\* the facets they produce do not depend on when the transitions end.
Spec == Init /\ [][Next]_vars

\* The same handlers interleaved with the end of the height transitions.
InitAnim == Init /\ data.n <= MaxAnimNodes

NextAnim ==
  \/ Next
  \/ \E n \in NodeIds : TransitionEnd(n)
  \/ AnimationFrame

SpecAnim == InitAnim /\ [][NextAnim]_vars

\* initFlowchart alone, on payloads whose nodes may be null or lack type or
\* label.
InitMount ==
  /\ OnlyFlowchart
  /\ Start(TreesOf(MaxMountNodes, MountKinds, BOOLEAN, {"absent"}) \cup {NoRoot})

NextMount == Mount \/ MountFail

SpecMount == InitMount /\ [][NextMount]_vars

\* The handlers on trees whose nodes carry a childMode.
InitMode ==
  /\ OnlyFlowchart
  /\ Start(TreesOf(MaxModeNodes, NodeTypes, {TRUE}, ChildModes))

SpecMode == InitMode /\ [][Next]_vars

----------------------------------------------------------------------------
\* The vocabulary of the properties.

\* a section in the collapsible sense: type section and at least one child
SectionWithChildren(n) == data.type[n] = "section" /\ Children(n) # {}

HasDetail(n) == data.detail[n]

\* 0 for the root, the parent's depth plus 1 otherwise
Depth(n) == Cardinality(AncOrSelf(data.parent, n)) - 1

childrenExpanded(n) == Facets(els[n]).children
detailExpanded(n) == Facets(els[n]).detail

\* the last handler that ran was a click on node n's header or detail region
Activated(n) == lastOp \in {Op("header", n), Op("detail", n)}

ToggledAll == lastOp = Op("toggleAll", 0)

\* the detail region of node n is shown
detailShown(n) == els[n].ariaHidden = "false"

\* the facets after a toggleAll that took the expand path: every children
\* container open, data-expanded set on every node that contains a detail
ExpandedFacets ==
  [i \in NodeIds |-> [children |-> TRUE, detail |-> queryDetail(els, i) # 0]]

\* the facets every node has right after mount
InitialFacets ==
  [i \in NodeIds |->
     [children |-> ~(SectionWithChildren(i) /\ Depth(i) >= 1), detail |-> FALSE]]

----------------------------------------------------------------------------
\* C1: activating a section-with-children node always flips its
\* childrenExpanded and never flips its detail on its own: when the children
\* go from collapsed to expanded and the node has a collapsed detail, the
\* detail becomes expanded; when the children go from expanded to collapsed
\* and the detail is expanded, the detail becomes collapsed; in the remaining
\* cases the detail of a node that has one keeps its value.
C1_SectionActivation ==
  \A n \in NodeIds :
    (Activated(n) /\ SectionWithChildren(n)) =>
      /\ childrenExpanded(n) = ~before[n].children
      /\ (childrenExpanded(n) /\ HasDetail(n) /\ ~before[n].detail) => detailExpanded(n)
      /\ (~childrenExpanded(n) /\ before[n].detail) => ~detailExpanded(n)
      /\ (HasDetail(n) /\ childrenExpanded(n) /\ before[n].detail) => detailExpanded(n)
      /\ (HasDetail(n) /\ ~childrenExpanded(n) /\ ~before[n].detail) => ~detailExpanded(n)

\* a section with a detail was expanded together with its detail and has just
\* been collapsed through its detail region, which hid the detail again
C1_Witness ==
  \E n \in NodeIds :
    /\ lastOp = Op("detail", n)
    /\ SectionWithChildren(n) /\ HasDetail(n)
    /\ before[n] = [children |-> TRUE, detail |-> TRUE]
    /\ ~childrenExpanded(n) /\ ~detailExpanded(n)

\* C2: immediately after mount every section with children at depth >= 1 has
\* childrenExpanded = false, every other node has childrenExpanded = true,
\* and every node has detailExpanded = false.
C2_InitialState ==
  lastOp = Op("mount", 0) =>
    \A n \in NodeIds :
      /\ childrenExpanded(n) = ~(SectionWithChildren(n) /\ Depth(n) >= 1)
      /\ ~detailExpanded(n)

\* just mounted: a depth-0 section over a depth-1 section with a child and a
\* detail
C2_Witness ==
  /\ lastOp = Op("mount", 0)
  /\ \E n, m \in NodeIds :
       /\ SectionWithChildren(n) /\ Depth(n) = 0
       /\ SectionWithChildren(m) /\ Depth(m) = 1 /\ HasDetail(m)

\* C3: a toggleAll call that takes the expand path ends with every section
\* with children expanded, at every depth, and every detail expanded.
C3_ExpandPath ==
  (ToggledAll /\ allExpanded) =>
    \A n \in NodeIds :
      /\ SectionWithChildren(n) => childrenExpanded(n)
      /\ HasDetail(n) => detailExpanded(n)

\* the expand path has just reopened a depth-0 section that had been
\* collapsed by hand, and shown a detail that was hidden
C3_Witness ==
  /\ ToggledAll /\ allExpanded
  /\ \E n, m \in NodeIds :
       /\ SectionWithChildren(n) /\ Depth(n) = 0 /\ ~before[n].children
       /\ HasDetail(m) /\ ~before[m].detail

\* C4: a toggleAll call that takes the collapse path ends with every detail
\* collapsed and every section with children at depth >= 1 collapsed, and
\* leaves the childrenExpanded of every depth-0 node as it was.
C4_CollapsePath ==
  (ToggledAll /\ ~allExpanded) =>
    \A n \in NodeIds :
      /\ HasDetail(n) => ~detailExpanded(n)
      /\ (SectionWithChildren(n) /\ Depth(n) >= 1) => ~childrenExpanded(n)
      /\ Depth(n) = 0 => childrenExpanded(n) = before[n].children

\* the collapse path has just run on a tree whose depth-0 section was open,
\* with an open depth-1 section and an expanded detail
C4_Witness ==
  /\ ToggledAll /\ ~allExpanded
  /\ \E n, m, k \in NodeIds :
       /\ SectionWithChildren(n) /\ Depth(n) = 0 /\ before[n].children
       /\ SectionWithChildren(m) /\ Depth(m) >= 1 /\ before[m].children
       /\ HasDetail(k) /\ before[k].detail

\* C5: from the initial state one toggleAll call expands every section and
\* every detail; a second call immediately after collapses every section at
\* depth >= 1 and every detail, and depth-0 sections stay expanded.
C5_TwoToggleAll ==
  [][ /\ (ToggledAll' /\ before' = InitialFacets /\ allExpanded') =>
           \A n \in NodeIds :
             /\ SectionWithChildren(n) => childrenExpanded(n)'
             /\ HasDetail(n) => detailExpanded(n)'
      /\ (ToggledAll /\ before = InitialFacets /\ allExpanded /\ ToggledAll') =>
           \A n \in NodeIds :
             /\ (SectionWithChildren(n) /\ Depth(n) >= 1) => ~childrenExpanded(n)'
             /\ HasDetail(n) => ~detailExpanded(n)'
             /\ (SectionWithChildren(n) /\ Depth(n) = 0) => childrenExpanded(n)'
    ]_vars

\* the first toggleAll from the initial state has run, on a tree with a
\* depth-0 section, a depth-1 section with a child, and a detail
C5_Witness ==
  /\ ToggledAll /\ before = InitialFacets /\ allExpanded
  /\ \E n, m, k \in NodeIds :
       /\ SectionWithChildren(n) /\ Depth(n) = 0
       /\ SectionWithChildren(m) /\ Depth(m) >= 1
       /\ HasDetail(k)

\* C6: activating a section-with-children node twice in succession restores
\* both its childrenExpanded and its detailExpanded.
C6_TwiceRestoresBoth ==
  [][ \A n \in NodeIds :
        (Activated(n) /\ Activated(n)' /\ SectionWithChildren(n)) =>
          Facets(els[n])' = before[n]
    ]_vars

\* C6, amended: two activations in succession restore childrenExpanded; they
\* restore detailExpanded exactly when, before the first of them,
\* detailExpanded equalled childrenExpanded or the node held no detail region.
C6_TwiceRestores ==
  [][ \A n \in NodeIds :
        (Activated(n) /\ Activated(n)' /\ SectionWithChildren(n)) =>
          /\ childrenExpanded(n)' = before[n].children
          /\ (detailExpanded(n)' = before[n].detail)
               <=> (before[n].detail = before[n].children \/ queryDetail(els, n) = 0)
    ]_vars

\* a section with a detail whose two facets agreed has been activated once:
\* the activation that follows is the second of the pair
C6_Witness ==
  \E n \in NodeIds :
    /\ Activated(n)
    /\ SectionWithChildren(n) /\ HasDetail(n)
    /\ before[n].detail = before[n].children
    /\ childrenExpanded(n) = ~before[n].children

\* C7: two consecutive toggleAll calls return every node's childrenExpanded
\* and detailExpanded to the values they had before the first call.
C7_TwoToggleAllRestore ==
  [][ (ToggledAll /\ ToggledAll') => \A n \in NodeIds : Facets(els[n])' = before[n]
    ]_vars

\* C7, amended: two consecutive toggleAll calls restore every node's facets
\* exactly when the first call started from the bulk state that goes with
\* allExpanded: the facets of the initial state when allExpanded was false,
\* everything expanded when allExpanded was true.
C7_TwoToggleAllRestoreBulk ==
  [][ (ToggledAll /\ ToggledAll') =>
        ((\A n \in NodeIds : Facets(els[n])' = before[n])
           <=> before = IF allExpanded THEN InitialFacets ELSE ExpandedFacets)
    ]_vars

\* the collapse path has just run from the fully expanded state of a tree
\* with a depth-1 section and a detail: the toggleAll that follows is the
\* second of the pair
C7_Witness ==
  /\ ToggledAll /\ ~allExpanded /\ before = ExpandedFacets
  /\ \E m, k \in NodeIds :
       /\ SectionWithChildren(m) /\ Depth(m) >= 1
       /\ HasDetail(k)

\* C8: each activation of a node that has a detail and is not a section with
\* children flips its detailExpanded and leaves its childrenExpanded alone.
C8_DetailActivation ==
  \A n \in NodeIds :
    (Activated(n) /\ HasDetail(n) /\ ~SectionWithChildren(n)) =>
      /\ detailExpanded(n) = ~before[n].detail
      /\ childrenExpanded(n) = before[n].children

\* a node with a detail and with children, not a section, has just been
\* activated a second time, which collapsed its detail again
C8_Witness ==
  \E n \in NodeIds :
    /\ Activated(n)
    /\ HasDetail(n) /\ ~SectionWithChildren(n) /\ Children(n) # {}
    /\ before[n].detail /\ ~detailExpanded(n)

\* C9: activating a node leaves the childrenExpanded and detailExpanded of
\* each of its siblings unchanged.
C9_SiblingsUnchanged ==
  [][ \A n, m \in NodeIds :
        (Activated(n)' /\ m # n /\ data.parent[m] = data.parent[n]) =>
          Facets(els[m])' = Facets(els[m])
    ]_vars

\* a node has just been activated, which changed it, next to a sibling whose
\* detail is expanded
C9_Witness ==
  \E n, m \in NodeIds :
    /\ Activated(n) /\ Facets(els[n]) # before[n]
    /\ m # n /\ data.parent[m] = data.parent[n]
    /\ HasDetail(m) /\ detailExpanded(m)

\* C10: no section with children at depth >= 1 ever has its children
\* collapsed while its own detail is shown.
C10_NoDetailShownInCollapsedSection ==
  container = "tree" =>
    \A n \in NodeIds :
      (SectionWithChildren(n) /\ Depth(n) >= 1) =>
        ~(~childrenExpanded(n) /\ detailShown(n))

----------------------------------------------------------------------------
\* C11: a node with children whose type is not section has its children
\* expanded in every reachable state: its children container exists and
\* never carries flow-children--collapsed, whatever headers, details and
\* expand-all clicks came before.
C11_NonSectionAlwaysExpanded ==
  container = "tree" =>
    \A n \in NodeIds :
      Children(n) # {} /\ data.type[n] # "section" =>
        els[n].childrenEl = "open" /\ els[n].stubDisplay = "" /\ childrenExpanded(n)

\* a non-section node with children, below the root, right after its header
\* was clicked while the expand-all button had taken the collapse path before
C11_Witness ==
  /\ container = "tree"
  /\ btnText = "Expand All"
  /\ \E n \in NodeIds :
       /\ Children(n) # {} /\ data.type[n] # "section" /\ Depth(n) >= 1
       /\ HasDetail(n)
       /\ lastOp = Op("header", n)
       /\ childrenExpanded(n)

----------------------------------------------------------------------------
\* C12: right after every click on the expand-all button, from any reachable
\* state, each indicator matches its facet: the badge of every section with
\* children reads "hide" exactly when its children are expanded, the badge
\* of every other node with a detail reads "hide" exactly when its
\* data-expanded flag is set, and the detail region of every node with a
\* detail has aria-hidden "false" exactly when that node's data-expanded flag
\* is set.
C12_IndicatorsAfterToggleAll ==
  ToggledAll =>
    \A n \in NodeIds :
      /\ SectionWithChildren(n) =>
           (els[n].badgeText = "hide" <=> childrenExpanded(n))
      /\ ~SectionWithChildren(n) /\ HasDetail(n) =>
           (els[n].badgeText = "hide" <=> detailExpanded(n))
      /\ HasDetail(n) => (detailShown(n) <=> detailExpanded(n))

\* the button has just expanded everything: a section that was collapsed is
\* open with badge "hide", and a detail that was already expanded by a click
\* on its own node is shown with badge "hide"
C12_Witness ==
  /\ ToggledAll
  /\ allExpanded
  /\ \E s \in NodeIds :
       /\ SectionWithChildren(s) /\ ~before[s].children
       /\ childrenExpanded(s) /\ els[s].badgeText = "hide"
  /\ \E n \in NodeIds :
       /\ HasDetail(n) /\ ~SectionWithChildren(n) /\ before[n].detail
       /\ detailExpanded(n) /\ detailShown(n) /\ els[n].badgeText = "hide"

----------------------------------------------------------------------------
\* C13: allExpanded is false when mount has finished; every click on the
\* expand-all button negates it, taking the expand path (every children
\* container open, button reads "Collapse All") when it was false and the
\* collapse path (every data-expanded flag cleared, button reads
\* "Expand All") when it was true; a click on a header or on a detail region
\* leaves it as it was.
C13_AllExpandedFlag ==
  [][ /\ lastOp' = Op("mount", 0) => allExpanded' = FALSE
      /\ lastOp' = Op("toggleAll", 0) =>
           /\ allExpanded' = ~allExpanded
           /\ IF allExpanded
              THEN /\ btnText' = "Expand All"
                   /\ \A n \in NodeIds : ~els'[n].expanded
              ELSE /\ btnText' = "Collapse All"
                   /\ \A n \in NodeIds : els'[n].childrenEl # "collapsed"
      /\ lastOp'.op \in {"header", "detail"} => allExpanded' = allExpanded
    ]_vars

\* a click on a node after the button expanded everything: the flag is
\* still true
C13_Witness ==
  /\ allExpanded
  /\ btnText = "Collapse All"
  /\ \E n \in NodeIds : Activated(n) /\ before[n] # Facets(els[n])

----------------------------------------------------------------------------
\* C14: if the fetch rejects, resolves with a status that is not ok or with
\* a body that is not JSON, or the payload has no root, initFlowchart does
\* not throw: it ends in its catch block with the container holding the
\* failure panel and no node element; and whatever the payload, the
\* container never holds a tree that is not the complete rendering of
\* data.root.
C14_FailureShowsPanel ==
  /\ container = "loading" => lastOp = Op("none", 0) /\ ENABLED NextMount
  /\ (resp # "ok" \/ data.n = 0) /\ container # "loading" =>
       container = "error" /\ lastOp = Op("mountFail", 0)
  /\ container # "tree" => els = <<>>
  /\ container = "tree" => resp = "ok" /\ data.n > 0 /\ els = Rendered

\* the payload was fetched and has no root: the failure panel is shown
C14_Witness ==
  /\ resp = "ok"
  /\ data.n = 0
  /\ container = "error"
  /\ lastOp = Op("mountFail", 0)

----------------------------------------------------------------------------
\* a node that is null, or an object without type or without label
Malformed(i) == data.type[i] \in {"missing", "null"} \/ ~data.label[i]

\* C15: if the root or any node of the fetched tree lacks type or label,
\* building fails and mount shows the failure panel instead of a rendered
\* tree.
C15_MalformedNodeFails ==
  (\E i \in NodeIds : Malformed(i)) /\ container # "loading" => container = "error"

----------------------------------------------------------------------------
\* C16: the built tree has the shape of the fetched tree: renderNode creates
\* exactly one element per node of the tree, the elements appended to a
\* node's children container are those of the node's children, in the order
\* of node.children, the root's data-depth is 0, and every child has its
\* parent's depth plus 1 and, as index, its 0-based position among its
\* parent's children.
C16_SameShape ==
  lastOp = Op("mount", 0) =>
    LET pairs == renderNode(1, 0, 0, <<>>)
    IN /\ \A pr \in pairs : pr[1] \in NodeIds /\ pr[2].nodeId = pr[1]
       /\ \A i \in NodeIds : Cardinality({pr \in pairs : pr[1] = i}) = 1
       /\ DOMAIN els = NodeIds
       /\ els[1].depth = 0 /\ els[1].index = 0
       /\ \A i \in NodeIds :
            /\ els[i].nodeId = i
            /\ Len(els[i].childEls) = Cardinality(Children(i))
            /\ \A k \in 1..Len(els[i].childEls) :
                 LET c == els[i].childEls[k]
                 IN /\ data.parent[c] = i
                    /\ k > 1 => els[i].childEls[k - 1] < c
                    /\ els[c].depth = els[i].depth + 1
                    /\ els[c].index = k - 1

\* a mounted tree whose root has two children, the second at index 1
C16_Witness ==
  /\ lastOp = Op("mount", 0)
  /\ data.n = 3
  /\ els[1].childEls = <<2, 3>>
  /\ els[3].index = 1
  /\ els[3].depth = 1

----------------------------------------------------------------------------
\* C17: the tree number of a node at depth d has exactly d segments: the
\* root's is empty and the root's card shows no step number; a child's tree
\* number is its parent's with one segment appended, the two decimal digits
\* of the child's 1-based position among its siblings, the first digit 0 for
\* positions below 10.
C17_PositionLabel ==
  lastOp = Op("mount", 0) =>
    /\ els[1].treeNumber = <<>>
    /\ els[1].step = <<>>
    /\ \A i \in NodeIds :
         /\ Len(els[i].treeNumber) = els[i].depth
         /\ els[i].depth = Depth(i)
         /\ \A k \in 1..Len(els[i].childEls) :
              LET c == els[i].childEls[k]
                  seg == els[c].treeNumber[Len(els[c].treeNumber)]
              IN /\ els[c].treeNumber = els[i].treeNumber \o <<seg>>
                 /\ Len(seg) = 2
                 /\ seg[1] \in 0..9 /\ seg[2] \in 0..9
                 /\ 10 * seg[1] + seg[2] = k

\* a mounted root with two children, numbered 01 and 02
C17_Witness ==
  /\ lastOp = Op("mount", 0)
  /\ data.n = 3
  /\ els[2].treeNumber = <<<<0, 1>>>>
  /\ els[3].treeNumber = <<<<0, 2>>>>
  /\ els[3].step = <<<<0, 2>>>>

----------------------------------------------------------------------------
\* the facets of every node
AllFacets(e) == [i \in DOMAIN e |-> Facets(e[i])]

\* the tree once every running transition has ended and its listeners ran
Settled(e) ==
  [i \in DOMAIN e |->
     [e[i] EXCEPT !.transition = FALSE,
                  !.listener = FALSE,
                  !.height = IF e[i].listener THEN "auto" ELSE @]]

\* in the mounted tree every header, every detail region and the expand-all
\* button can be clicked, and while a transition is running the flags a
\* click on a card produces are those it would produce once the transitions
\* had ended
TogglesEnabled ==
  container = "tree" =>
    /\ \A n \in NodeIds :
         /\ HeaderClickable(n)
         /\ els[n].hasDetail => DetailClickable(n)
    /\ hasBtn => ButtonClickable
    /\ (\E m \in NodeIds : els[m].transition) =>
         LET settled == Settled(els)
         IN \A n \in NodeIds :
              AllFacets(headerClick(els, n)) = AllFacets(headerClick(settled, n))

\* C18: the handlers leave the flags at their final values: the callbacks a
\* toggle schedules (the transitionend listener, the requestAnimationFrame
\* callback) change neither childrenExpanded nor detailExpanded of any node
\* nor allExpanded; and in every state of the mounted tree every header,
\* every detail region and the expand-all button can be clicked, with the
\* same resulting flags whether or not the callbacks have run.
C18_CallbacksCosmetic ==
  /\ TogglesEnabled
  /\ lastOp.op \in {"transitionend", "raf"} =>
       /\ AllFacets(els) = before.flags
       /\ allExpanded = before.all

\* a transitionend listener has just run on an expanded detail while the
\* requestAnimationFrame callback of the same toggle is still waiting
C18_Witness ==
  /\ rafPending
  /\ \E n \in NodeIds :
       /\ lastOp = Op("transitionend", n)
       /\ els[n].height = "auto"
       /\ detailExpanded(n)
       /\ els[n].transition = FALSE

----------------------------------------------------------------------------
\* C19: on a page without the expand-all button, mount renders the complete
\* tree and not the failure panel whenever the fetch delivered a tree, a
\* click on a header or on a detail region has the effect it has with the
\* button present (a section with children flips its children and couples
\* its detail, any other node with a detail flips its detail), and the
\* expand-all handler never runs: it is not enabled, allExpanded stays false
\* and the button text is never written.
C19_NoExpandAllControl ==
  ~hasBtn =>
    /\ resp = "ok" /\ data.n > 0 /\ container # "loading" =>
         container = "tree" /\ DOMAIN els = NodeIds
    /\ lastOp = Op("mount", 0) => els = Rendered
    /\ C1_SectionActivation
    /\ C8_DetailActivation
    /\ ~ENABLED ToggleAll
    /\ ~ToggledAll
    /\ ~allExpanded
    /\ btnText = "initial"

\* no button on the page: a collapsed section has just been expanded by a
\* click on its header
C19_Witness ==
  /\ ~hasBtn
  /\ container = "tree"
  /\ \E n \in NodeIds :
       /\ Activated(n)
       /\ SectionWithChildren(n)
       /\ ~before[n].children
       /\ childrenExpanded(n)

----------------------------------------------------------------------------
\* the tree without what childMode contributes to it: every children
\* container carries flow-children--sequential and holds no choice divider
EraseMode(e) ==
  [i \in DOMAIN e |->
     [e[i] EXCEPT !.mode = IF @ = "absent" THEN @ ELSE "sequential",
                  !.dividers = 0]]

\* the fetched tree with every childMode left out
NoModes == [i \in NodeIds |-> "absent"]

Methods == {"GET", "POST", "DELETE"}

\* statuses the server answers with; resp.ok is true for 200..299
Statuses == {200, 204, 401, 404, 500, 502}

\* "object": a JSON object without an error field; "errorObject": a JSON
\* object with one; "null": the JSON text null; "text": a body that is no
\* JSON (an HTML error page of a proxy); "empty": no body at all
Bodies == {"object", "errorObject", "null", "text", "empty"}

respOk(st) == st >= 200 /\ st <= 299

\* resp.json() rejects with a SyntaxError for a body that is no JSON text
jsonRejects(body) == body \in {"text", "empty"}

Pending == [kind |-> "pending", status |-> 0, message |-> "none"]

Thrown(kind) == [kind |-> kind, status |-> 0, message |-> "none"]

ApiError(message, st) == [kind |-> "ApiError", status |-> st, message |-> message]

\* the three wrappers: only apiPost passes a body, which the caller may
\* leave undefined
ApiCalls ==
  {c \in [method : Methods, hasBody : BOOLEAN] : c.hasBody => c.method = "POST"}

InitApi ==
  /\ NoFlowchart
  /\ i18n = Unused /\ feed = Unused /\ status = Unused
  /\ \E c \in ApiCalls, net \in {"resolves", "rejects"},
        st \in Statuses, body \in Bodies :
       api = [pc |-> "called", method |-> c.method, hasBody |-> c.hasBody,
              contentType |-> FALSE, net |-> net, httpStatus |-> st,
              body |-> body, outcome |-> Pending]

\* lines 23..33: the options are built and fetch is called
ApiFetch ==
  /\ api.pc = "called"
  /\ api' = [api EXCEPT !.pc = "fetching", !.contentType = api.hasBody]
  /\ UNCHANGED <<flowVars, i18n, feed, status>>

\* line 33: the await of fetch ends; a rejection leaves request()
ApiResponse ==
  /\ api.pc = "fetching"
  /\ api' = IF api.net = "rejects"
            THEN [api EXCEPT !.pc = "done", !.outcome = Thrown("TypeError")]
            ELSE [api EXCEPT !.pc = "parsing"]
  /\ UNCHANGED <<flowVars, i18n, feed, status>>

\* lines 34..40: the await of resp.json() ends, then the status is tested
ApiSettle ==
  /\ api.pc = "parsing"
  /\ api' = [api EXCEPT !.pc = "done", !.outcome =
       IF jsonRejects(api.body) THEN Thrown("SyntaxError")
       ELSE IF ~respOk(api.httpStatus)
            THEN IF api.body = "null" THEN Thrown("TypeError")
                 ELSE ApiError(IF api.body = "errorObject" THEN "data.error"
                               ELSE "Request failed", api.httpStatus)
            ELSE [kind |-> "data", status |-> 0, message |-> api.body]]
  /\ UNCHANGED <<flowVars, i18n, feed, status>>

NextApi == ApiFetch \/ ApiResponse \/ ApiSettle

SpecApi == InitApi /\ [][NextApi]_vars

\* C21: every request that got a response has, once it ended, either returned
\* the parsed data of a response with a success status, or failed with an
\* ApiError that carries the status of a response without one, whatever the
\* body of the response.
C21_TwoOutcomes ==
  (api.pc = "done" /\ api.net = "resolves") =>
    \/ respOk(api.httpStatus) /\ api.outcome.kind = "data"
    \/ /\ ~respOk(api.httpStatus)
       /\ api.outcome.kind = "ApiError" /\ api.outcome.status = api.httpStatus

(***************************************************************************)
(* js/i18n.js: detectLanguage.                                             *)
(*                                                                         *)
(* A language tag is the sequence of its subtags ("pt-BR" is <<"pt",       *)
(* "BR">>), the empty string is <<"">>.  String.toLowerCase and            *)
(* split('-')[0] work on the subtags; SUPPORTED.includes compares whole    *)
(* tags, case and all.                                                     *)
(***************************************************************************)

MaxLangs == 2

SUPPORTED ==
  <<(<<"en">>), (<<"ja">>), (<<"es">>), (<<"pt", "br">>), (<<"de">>),
    (<<"fr">>), (<<"ar">>)>>

RTL_LANGS == {<<"ar">>}

includes(list, x) == \E k \in DOMAIN list : list[k] = x

EmptyString == <<"">>

\* null and undefined, where a tag is expected: no subtags at all
Null == <<>>

\* what navigator.languages and navigator.language hold
BrowserTags ==
  {<<"en", "US">>, <<"JA">>, <<"ja", "JP">>, <<"pt", "BR">>, <<"pt", "PT">>,
   <<"zh", "CN">>, <<"fr">>}

\* what a cookie or a localStorage entry named lang may hold
StoredTags ==
  {EmptyString, <<"ja">>, <<"JA">>, <<"pt", "br">>, <<"pt">>, <<"zh">>}

UpperToLower ==
  ("US" :> "us") @@ ("JA" :> "ja") @@ ("JP" :> "jp") @@ ("BR" :> "br") @@
  ("PT" :> "pt") @@ ("CN" :> "cn")

toLowerCase(tag) ==
  [k \in DOMAIN tag |->
     IF tag[k] \in DOMAIN UpperToLower THEN UpperToLower[tag[k]] ELSE tag[k]]

\* lower.split('-')[0]
primarySubtag(tag) == <<tag[1]>>

truthy(v) == v \notin {Null, EmptyString}

\* document.cookie has no cookie named lang, or one whose value is written
\* plainly, with percent escapes of the same text, or with a percent sign
\* that starts no escape
Cookies ==
  {[text |-> Null, form |-> "absent"]} \cup
  [text : StoredTags, form : {"plain", "escaped", "malformed"}]

\* getCookie: null without a match, else decodeURIComponent of the value,
\* which throws a URIError on a malformed escape
getCookieThrows(cookie) == cookie.form = "malformed"

getCookie(cookie) == IF cookie.form = "absent" THEN Null ELSE cookie.text

LangLists == UNION {[1..k -> BrowserTags] : k \in 0..MaxLangs}

Environments ==
  [cookie : Cookies,
   stored : {Null} \cup StoredTags,
   languages : {[defined |-> FALSE, list |-> <<>>]} \cup
               [defined : {TRUE}, list : LangLists],
   language : {Null, EmptyString} \cup BrowserTags]

\* navigator.languages || [navigator.language || 'en']
browserLangs(env) ==
  IF env.languages.defined THEN env.languages.list
  ELSE IF truthy(env.language) THEN <<env.language>> ELSE <<(<<"en">>)>>

RECURSIVE firstBrowserMatch(_, _)
firstBrowserMatch(langs, k) ==
  IF k > Len(langs) THEN <<"en">>
  ELSE LET lower == toLowerCase(langs[k])
           prefix == primarySubtag(lower)
       IN IF includes(SUPPORTED, lower) THEN lower
          ELSE IF includes(SUPPORTED, prefix) THEN prefix
          ELSE firstBrowserMatch(langs, k + 1)

\* variant: the stored value is tried before the cookie
detectLanguage_storedFirst(env) ==
  LET cookie == getCookie(env.cookie)
      stored == env.stored
  IN IF truthy(stored) /\ includes(SUPPORTED, stored) THEN stored
     ELSE IF truthy(cookie) /\ includes(SUPPORTED, cookie) THEN cookie
     ELSE firstBrowserMatch(browserLangs(env), 1)

detectLanguage(env) ==
  LET cookie == getCookie(env.cookie)
      stored == env.stored
  IN IF truthy(cookie) /\ includes(SUPPORTED, cookie) THEN cookie
     ELSE IF truthy(stored) /\ includes(SUPPORTED, stored) THEN stored
     ELSE firstBrowserMatch(browserLangs(env), 1)

InitDetect ==
  /\ NoFlowchart
  /\ api = Unused /\ feed = Unused /\ status = Unused
  /\ \E env \in Environments :
       i18n = [pc |-> "loaded", env |-> env, result |-> Null]

\* detectLanguage is called, as initI18n does on page load
Detect ==
  /\ i18n.pc = "loaded"
  /\ i18n' = IF getCookieThrows(i18n.env.cookie)
             THEN [i18n EXCEPT !.pc = "thrown"]
             ELSE [i18n EXCEPT !.pc = "returned",
                               !.result = detectLanguage(i18n.env)]
  /\ UNCHANGED <<flowVars, api, feed, status>>

NextDetect == Detect

SpecDetect == InitDetect /\ [][NextDetect]_vars

\* the candidates in the order of the claim: the cookie, the stored value,
\* then for each browser language its lowercased tag and its primary subtag
Candidates(env) ==
  LET langs == browserLangs(env)
  IN <<getCookie(env.cookie), env.stored>> \o
     [k \in 1..(2 * Len(langs)) |->
        IF k % 2 = 1 THEN toLowerCase(langs[(k + 1) \div 2])
        ELSE <<toLowerCase(langs[k \div 2])[1]>>]

FirstSupported(cands) ==
  IF \E k \in DOMAIN cands : includes(SUPPORTED, cands[k])
  THEN cands[CHOOSE k \in DOMAIN cands :
               /\ includes(SUPPORTED, cands[k])
               /\ \A j \in 1..(k - 1) : ~includes(SUPPORTED, cands[j])]
  ELSE <<"en">>

MaxItems == 3

DateStrings == {<<>>, <<1>>, <<1, 2>>, <<2>>}

ItemTypes == {"note", "screenshot"}

Items ==
  {it \in [hasDate : BOOLEAN, date : DateStrings, type : ItemTypes,
           hasImage : BOOLEAN] : ~it.hasDate => it.date = <<>>}

ItemLists == UNION {[1..k -> Items] : k \in 0..MaxItems}

\* a.localeCompare(b) on strings of digits: -1, 0 or 1
RECURSIVE localeCompare(_, _)
localeCompare(a, b) ==
  IF a = <<>> THEN (IF b = <<>> THEN 0 ELSE -1)
  ELSE IF b = <<>> THEN 1
  ELSE IF Head(a) < Head(b) THEN -1
  ELSE IF Head(a) > Head(b) THEN 1
  ELSE localeCompare(Tail(a), Tail(b))

\* item.date || ''
dateOrEmpty(it) == IF it.hasDate THEN it.date ELSE <<>>

\* variant: the dates are compared the other way round
compareItems_oldestFirst(a, b) ==
  LET dateCmp == localeCompare(dateOrEmpty(a), dateOrEmpty(b))
      aNote == IF a.type = "note" THEN 0 ELSE 1
      bNote == IF b.type = "note" THEN 0 ELSE 1
  IN IF dateCmp # 0 THEN dateCmp ELSE aNote - bNote

\* the comparator passed to sort
compareItems(a, b) ==
  LET dateCmp == localeCompare(dateOrEmpty(b), dateOrEmpty(a))
      aNote == IF a.type = "note" THEN 0 ELSE 1
      bNote == IF b.type = "note" THEN 0 ELSE 1
  IN IF dateCmp # 0 THEN dateCmp ELSE aNote - bNote

\* Array.prototype.sort is stable: an item goes behind every item that does
\* not compare greater than it
RECURSIVE insertSorted(_, _)
insertSorted(sorted, it) ==
  IF sorted = <<>> THEN <<it>>
  ELSE IF compareItems(Head(sorted), it) > 0 THEN <<it>> \o sorted
  ELSE <<Head(sorted)>> \o insertSorted(Tail(sorted), it)

RECURSIVE sort(_)
sort(list) ==
  IF list = <<>> THEN <<>>
  ELSE insertSorted(sort(SubSeq(list, 1, Len(list) - 1)), list[Len(list)])

\* hashLabel(item.image) reads str.length of an image that is undefined
renderItemThrows(it) == it.type # "note" /\ ~it.hasImage

InitFeed ==
  /\ NoFlowchart
  /\ api = Unused /\ i18n = Unused /\ status = Unused
  /\ \E hasContainer \in BOOLEAN, r \in Responses, hasList \in BOOLEAN,
        list \in ItemLists :
       /\ r # "ok" => (~hasList /\ list = <<>>)
       /\ ~hasList => list = <<>>
       /\ feed = [pc |-> "loaded", hasContainer |-> hasContainer, resp |-> r,
                  hasList |-> hasList, given |-> list, items |-> list,
                  view |-> "loading", shown |-> <<>>]

\* initIntelligence without its container
FeedNoContainer ==
  /\ feed.pc = "loaded" /\ ~feed.hasContainer
  /\ feed' = [feed EXCEPT !.pc = "done"]
  /\ UNCHANGED <<flowVars, api, i18n, status>>

\* the fetch fails, the status is no success, the body is no JSON, or an item
\* cannot be rendered: the catch block replaces what the container holds
FeedFail ==
  /\ feed.pc = "loaded" /\ feed.hasContainer
  /\ \/ feed.resp # "ok"
     \/ feed.hasList /\ \E k \in DOMAIN feed.items : renderItemThrows(feed.items[k])
  /\ feed' = [feed EXCEPT !.pc = "done", !.view = "failed", !.shown = <<>>]
  /\ UNCHANGED <<flowVars, api, i18n, status>>

\* data.intelligence is missing or empty
FeedEmpty ==
  /\ feed.pc = "loaded" /\ feed.hasContainer /\ feed.resp = "ok"
  /\ ~feed.hasList \/ feed.items = <<>>
  /\ feed' = [feed EXCEPT !.pc = "done", !.view = "empty"]
  /\ UNCHANGED <<flowVars, api, i18n, status>>

\* the items are sorted in place and appended one by one
FeedRender ==
  /\ feed.pc = "loaded" /\ feed.hasContainer /\ feed.resp = "ok"
  /\ feed.hasList /\ feed.items # <<>>
  /\ \A k \in DOMAIN feed.items : ~renderItemThrows(feed.items[k])
  /\ feed' = [feed EXCEPT !.pc = "done", !.view = "items",
                          !.items = sort(feed.items),
                          !.shown = sort(feed.items)]
  /\ UNCHANGED <<flowVars, api, i18n, status>>

NextFeed == FeedNoContainer \/ FeedFail \/ FeedEmpty \/ FeedRender

SpecFeed == InitFeed /\ [][NextFeed]_vars

\* one date string is later than another: it is greater, character by
\* character, and a proper prefix is earlier
RECURSIVE Later(_, _)
Later(a, b) ==
  /\ a # <<>>
  /\ \/ b = <<>>
     \/ Head(a) > Head(b)
     \/ Head(a) = Head(b) /\ Later(Tail(a), Tail(b))

DateShown(it) == IF it.hasDate THEN it.date ELSE <<>>

\* C23: the feed is shown newest first: of two items shown, the one with the
\* later date string comes first (a missing date counts as the empty string),
\* and among items of one date every note comes before every screenshot.
C23_NewestFirst ==
  \A i, j \in DOMAIN feed.shown :
    LET a == feed.shown[i]
        b == feed.shown[j]
    IN /\ Later(DateShown(a), DateShown(b)) => i < j
       /\ (DateShown(a) = DateShown(b) /\ a.type = "note" /\ b.type # "note")
            => i < j

\* a feed given with the item without a date first and a screenshot before
\* the note of the same date came out in the claimed order
C23_Witness ==
  /\ feed.pc = "done" /\ feed.view = "items"
  /\ Len(feed.shown) = 3
  /\ ~feed.given[1].hasDate
  /\ feed.given[2].type = "screenshot" /\ feed.given[3].type = "note"
  /\ ~feed.shown[3].hasDate
  /\ feed.shown[1].type = "note" /\ feed.shown[2].type = "screenshot"
  /\ feed.shown[1].date = <<1, 2>> /\ feed.shown[2].date = <<1, 2>>

-----------------------------------------------------------------------------
\* C24: activating a node changes the expanded flag, the detail visibility
\* (aria-hidden, height) and the badge of that node only: after a click on
\* the header or the detail region of node n, every other node has the flag,
\* the aria-hidden, the height and the badge text it had before.
C24_ActivationFrame ==
  [][\A n \in NodeIds :
       (container = "tree" /\ lastOp' \in {Op("header", n), Op("detail", n)}) =>
         \A m \in NodeIds \ {n} :
           /\ els'[m].expanded = els[m].expanded
           /\ els'[m].ariaHidden = els[m].ariaHidden
           /\ els'[m].height = els[m].height
           /\ els'[m].badgeText = els[m].badgeText]_vars

\* C25: in every state reached by clicks on nodes and on the expand-all
\* button, a node's data-expanded is true only if the node itself has a
\* detail, and for a node with a detail it is true exactly when that node's
\* own detail region is shown (aria-hidden false).
C25_FlagMatchesOwnDetail ==
  container = "tree" =>
    \A n \in NodeIds :
      /\ detailExpanded(n) => HasDetail(n)
      /\ HasDetail(n) => (detailExpanded(n) <=> detailShown(n))

\* no transitionend listener waits for its event, no transition is running
\* and no animation frame callback is scheduled
NoCallbackPending ==
  /\ ~rafPending
  /\ \A m \in NodeIds : ~els[m].listener /\ ~els[m].transition

\* C26: once no callback is pending, a node whose detail is collapsed
\* (data-expanded false, its detail region hidden) has the detail height 0,
\* as the style sheet or the last collapse set it, and never auto.
C26_CollapsedHeightZero ==
  (container = "tree" /\ NoCallbackPending) =>
    \A n \in NodeIds :
      (HasDetail(n) /\ ~detailExpanded(n) /\ ~detailShown(n)) =>
        els[n].height \in {"0", "css"}

(***************************************************************************)
(* The status page: loadEntries, renderReport, wireEntryForm and           *)
(* wireDeleteButtons, with the server they talk to.                        *)
(*                                                                         *)
(* A request is sent, handled by the server at some later moment, and its  *)
(* response is delivered to the page at some moment after that; requests   *)
(* travel on separate connections, so neither order is fixed.  A handler   *)
(* that awaits a response continues when it is delivered.  The button a    *)
(* handler has disabled is part of the report rendered at the time of the  *)
(* click: once the container's innerHTML is replaced, the button is no     *)
(* longer on the page.                                                     *)
(***************************************************************************)

MaxEntries == 2

MaxClicks == 2

\* history: failures tells whether the server has answered a request with an
\* error, clicks counts the clicks on Delete and Submit Entry
EntryIds == 1..MaxEntries

\* the request loadEntries sends
GetRequest(no) ==
  [no |-> no, kind |-> "GET", entry |-> 0, stage |-> "sent", ok |-> TRUE,
   entries |-> {}, onPage |-> FALSE]

\* the request a click handler sends after it disabled its button
ClickRequest(no, kind, entry) ==
  [no |-> no, kind |-> kind, entry |-> entry, stage |-> "sent", ok |-> TRUE,
   entries |-> {}, onPage |-> TRUE]

\* container.innerHTML is replaced: the buttons of the handlers that still
\* wait for a response leave the page
Detached(reqs) == {[r EXCEPT !.onPage = FALSE] : r \in reqs}

\* loadEntries up to its await: the loading text replaces the report and
\* the GET request is sent
loadEntries(s) ==
  [s EXCEPT !.view = "loading", !.shown = {}, !.disabled = {},
            !.notice = FALSE, !.sent = s.sent + 1,
            !.reqs = Detached(s.reqs) \cup {GetRequest(s.sent + 1)}]

\* initStatus with a token: the page starts with the first loadEntries
InitStatus ==
  /\ NoFlowchart
  /\ api = Unused /\ i18n = Unused /\ feed = Unused
  /\ \E stored \in SUBSET EntryIds :
       status = loadEntries([server |-> stored, view |-> "blank", shown |-> {},
                             disabled |-> {}, notice |-> FALSE, sent |-> 0,
                             clicks |-> 0, failures |-> FALSE, reqs |-> {}])

\* a click on the Delete button of entry e, confirmed
ClickDelete(e) ==
  /\ status.view = "report" /\ e \in status.shown /\ e \notin status.disabled
  /\ status.clicks < MaxClicks
  /\ status' = [status EXCEPT !.disabled = @ \cup {e},
                              !.clicks = @ + 1, !.sent = @ + 1,
                              !.reqs = @ \cup {ClickRequest(status.sent + 1, "DELETE", e)}]
  /\ UNCHANGED <<flowVars, api, i18n, feed>>

\* a click on Submit Entry: without content only a notice is shown
ClickSubmit(hasContent) ==
  /\ status.view = "report" /\ 0 \notin status.disabled
  /\ status.clicks < MaxClicks
  /\ status' = IF ~hasContent
               THEN [status EXCEPT !.notice = TRUE, !.clicks = @ + 1]
               ELSE [status EXCEPT !.disabled = @ \cup {0}, !.notice = FALSE,
                                   !.clicks = @ + 1, !.sent = @ + 1,
                                   !.reqs = @ \cup {ClickRequest(status.sent + 1, "POST", 0)}]
  /\ UNCHANGED <<flowVars, api, i18n, feed>>

\* the smallest id no stored entry has, for the entry a POST creates
FreshId(stored) == CHOOSE e \in EntryIds \ stored : \A f \in EntryIds \ stored : e <= f

\* the server handles request r: it answers with an error, or it does what
\* was asked and answers with a success
ServerHandle(r, ok) ==
  /\ r \in status.reqs /\ r.stage = "sent"
  /\ LET fine == /\ ok
                 /\ r.kind = "DELETE" => r.entry \in status.server
                 /\ r.kind = "POST" => status.server # EntryIds
         stored == IF ~fine THEN status.server
                   ELSE IF r.kind = "DELETE" THEN status.server \ {r.entry}
                   ELSE IF r.kind = "POST"
                        THEN status.server \cup {FreshId(status.server)}
                   ELSE status.server
         answered == [r EXCEPT !.stage = "answered", !.ok = fine,
                               !.entries = IF fine /\ r.kind = "GET"
                                           THEN status.server ELSE {}]
     IN status' = [status EXCEPT !.server = stored,
                                 !.failures = @ \/ ~fine,
                                 !.reqs = (@ \ {r}) \cup {answered}]
  /\ UNCHANGED <<flowVars, api, i18n, feed>>

\* the response to a GET is delivered: loadEntries continues after its await
DeliverGet(r) ==
  /\ r \in status.reqs /\ r.stage = "answered" /\ r.kind = "GET"
  /\ status' = IF r.ok
               THEN [status EXCEPT !.view = "report", !.shown = r.entries,
                                   !.disabled = {}, !.notice = FALSE,
                                   !.reqs = Detached(@ \ {r})]
               ELSE [status EXCEPT !.view = "failed", !.shown = {},
                                   !.disabled = {}, !.notice = FALSE,
                                   !.reqs = Detached(@ \ {r})]
  /\ UNCHANGED <<flowVars, api, i18n, feed>>

\* the response to a DELETE or a POST is delivered: the click handler
\* continues after its await, with loadEntries or in its catch block
DeliverClick(r) ==
  /\ r \in status.reqs /\ r.stage = "answered" /\ r.kind # "GET"
  /\ status' = IF r.ok
               THEN loadEntries([status EXCEPT !.reqs = @ \ {r}])
               ELSE [status EXCEPT !.reqs = @ \ {r},
                                   !.notice = IF r.onPage /\ r.kind = "POST"
                                              THEN TRUE ELSE @,
                                   !.disabled = IF r.onPage THEN @ \ {r.entry}
                                                ELSE @]
  /\ UNCHANGED <<flowVars, api, i18n, feed>>

NextStatus ==
  \/ \E e \in EntryIds : ClickDelete(e)
  \/ \E hasContent \in BOOLEAN : ClickSubmit(hasContent)
  \/ \E r \in status.reqs, ok \in BOOLEAN : ServerHandle(r, ok)
  \/ \E r \in status.reqs : DeliverGet(r)
  \/ \E r \in status.reqs : DeliverClick(r)

SpecStatus == InitStatus /\ [][NextStatus]_vars

\* C27: once no request is outstanding, the entries the report shows are the
\* entries stored on the server, in every run in which the server answered
\* every request with a success.
C27_ShownIsStored ==
  (status.reqs = {} /\ status.view = "report" /\ ~status.failures) =>
    status.shown = status.server

(***************************************************************************)
(* js/i18n.js: setLanguage, loadTranslations and applyTranslations.        *)
(*                                                                         *)
(* A call of setLanguage runs up to its await at once and continues when   *)
(* the promise of loadTranslations is settled: after the response to the   *)
(* fetch of the language file for a language other than en, in a later     *)
(* microtask for en.  Calls made in the meantime run in between.  A set of *)
(* translations is named by its language; the empty object is NoDict.      *)
(***************************************************************************)

MaxCalls == 3

\* the languages setLanguage is called with; xx is not supported
CallLangs == {<<"en">>, <<"ja">>, <<"ar">>, <<"xx">>}

NoDict == <<"{}">>

InitLang ==
  /\ NoFlowchart
  /\ api = Unused /\ feed = Unused /\ status = Unused
  /\ i18n = [pc |-> "ready", currentLang |-> <<"en">>, translations |-> NoDict,
             stored |-> Null, docLang |-> <<"en">>, docDir |-> "ltr",
             text |-> <<"en">>, calls |-> {}, made |-> 0, last |-> Null,
             failures |-> FALSE]

\* setLanguage(lang) up to its await; made, last and failures are history:
\* the number of calls, the language of the last call with a supported
\* language, whether a language file failed to load
SetLanguage(lang) ==
  /\ i18n.pc = "ready" /\ i18n.made < MaxCalls
  /\ i18n' = IF ~includes(SUPPORTED, lang)
             THEN [i18n EXCEPT !.made = @ + 1]
             ELSE [i18n EXCEPT !.made = @ + 1, !.last = lang,
                               !.currentLang = lang, !.stored = lang,
                               !.calls = @ \cup {[no |-> i18n.made + 1,
                                                  lang |-> lang]}]
  /\ UNCHANGED <<flowVars, api, feed, status>>

\* loadTranslations(lang), given whether the language file could be fetched
\* and parsed
loadTranslations(lang, ok) == IF lang = <<"en">> \/ ~ok THEN NoDict ELSE lang

\* what the elements with data-i18n show after applyTranslations
applyTranslations(s) ==
  IF s.currentLang = <<"en">> \/ s.translations = NoDict THEN s.text
  ELSE s.translations

\* the calls that wait for no response: their promise is settled already and
\* they continue, in the order they were made, before any response arrives
Microtasks(calls) == {c \in calls : c.lang = <<"en">>}

\* the await of call c ends: the rest of setLanguage runs
Resume(c, ok) ==
  /\ c \in i18n.calls
  /\ c.lang = <<"en">> => ok /\ \A d \in Microtasks(i18n.calls) : c.no <= d.no
  /\ c.lang # <<"en">> => Microtasks(i18n.calls) = {}
  /\ LET s == [i18n EXCEPT !.translations = loadTranslations(c.lang, ok),
                           !.failures = @ \/ ~ok,
                           !.calls = @ \ {c}]
     IN i18n' = [s EXCEPT !.text = applyTranslations(s),
                          !.docLang = c.lang,
                          !.docDir = IF c.lang \in RTL_LANGS THEN "rtl"
                                     ELSE "ltr"]
  /\ UNCHANGED <<flowVars, api, feed, status>>

NextLang ==
  \/ \E lang \in CallLangs : SetLanguage(lang)
  \/ \E c \in i18n.calls, ok \in BOOLEAN : Resume(c, ok)

SpecLang == InitLang /\ [][NextLang]_vars

\* C28: once every call of setLanguage has completed, the document's lang
\* attribute, the translations, currentLang and the stored lang value all
\* name the language of the last call made with a supported language (in
\* runs in which every language file could be loaded).
C28_LastCallWins ==
  (i18n.calls = {} /\ i18n.last # Null /\ ~i18n.failures) =>
    /\ i18n.currentLang = i18n.last
    /\ i18n.stored = i18n.last
    /\ i18n.docLang = i18n.last
    /\ i18n.translations = loadTranslations(i18n.last, TRUE)

====
